---- MODULE Spec2Model ----
(***************************************************************************)
(* Model of backend/verify_upgrade.py: the acceptance harness that        *)
(* launches the TinyTorrent daemon, discovers its RPC port from the       *)
(* output log and connection.json, runs the scenarios and tears the       *)
(* process down; and of its hand-written WebSocket client.                *)
(***************************************************************************)
EXTENDS Integers, Sequences, FiniteSets, TLC

VARIABLES
    pc,            \* control point of the main thread
    procState,     \* the child process: "none", "running", "exited"
    mainProc,      \* main()'s local `proc` is bound to the Popen handle
    terminated,    \* proc.terminate() was called
    killed,        \* proc.kill() was called
    output_lines,  \* start_backend's output_lines, appended by reader()
    file,          \* content of connection.json
    port,          \* start_backend's local `port`: <<>> is None, <<n>> is n
    firstPort,     \* history: the first non-zero port assigned to `port`
    now,           \* time.time(), in poll intervals since the launch
    deadline,      \* start_backend's `deadline`
    err,           \* the exception in flight, "none" when there is none
    reply,         \* the status post_rpc returned to the scenario that runs
    said,          \* the last line a scenario or main printed
    \* websocket_sequence
    wsPc,          \* control point inside websocket_sequence
    wire,          \* bytes the server sends that no recv has returned yet
    wireEof,       \* the server closes the connection after those bytes
    response,      \* the handshake's `response`
    buffer,        \* the frame reader's `buffer`
    hdr2,          \* read_frame's header[1]
    length,        \* read_frame's `length`
    mask,          \* read_frame's `mask`: <<>> is None
    payloads,      \* the payloads read_frame has returned, in order
    wsErr,         \* the error websocket_sequence raised, "none" if none
    wsNow,         \* time.time() since line 259, in ticks
    sent,          \* history: every byte the server sends on the connection
    taken,         \* history: the bytes recv_exact_ws has handed out
    frameIn        \* history: the frame the server encoded (payload, key)

mainVars == <<pc, procState, mainProc, terminated, killed, output_lines, file,
              port, firstPort, now, deadline, err, reply, said>>

wsVars == <<wsPc, wire, wireEof, response, buffer, hdr2, length, mask,
            payloads, wsErr, wsNow, sent, taken, frameIn>>

vars == <<mainVars, wsVars>>

----------------------------------------------------------------------------
(* Bounds of the model *)

\* number of lines the reader thread appends
MaxLines == 2
\* the discovery deadline (30 s) counted in sleep intervals
DeadlineTicks == 2

----------------------------------------------------------------------------
(* Optional values: Python's None and int *)

None == <<>>
Some(n) == <<n>>

\* Python truthiness of an optional int: `if port:`
Truthy(p) == p # None /\ p[1] # 0

----------------------------------------------------------------------------
(* int(): parsing of a token, a sequence of characters *)

Digits == {"0", "1", "2", "3", "4", "5", "6", "7", "8", "9"}

DigitVal(c) ==
    CASE c = "0" -> 0 [] c = "1" -> 1 [] c = "2" -> 2 [] c = "3" -> 3
      [] c = "4" -> 4 [] c = "5" -> 5 [] c = "6" -> 6 [] c = "7" -> 7
      [] c = "8" -> 8 [] c = "9" -> 9

RECURSIVE DigitsVal(_)
DigitsVal(ds) ==
    IF ds = <<>> THEN 0
    ELSE 10 * DigitsVal(SubSeq(ds, 1, Len(ds) - 1)) + DigitVal(ds[Len(ds)])

\* int(tok): None stands for the ValueError int() raises
ParseInt(tok) ==
    IF tok = <<>> THEN None
    ELSE LET signed == tok[1] \in {"-", "+"}
             ds == IF signed THEN Tail(tok) ELSE tok
         IN IF ds = <<>> \/ \E i \in 1..Len(ds) : ds[i] \notin Digits
            THEN None
            ELSE Some((IF tok[1] = "-" THEN -1 ELSE 1) * DigitsVal(ds))

----------------------------------------------------------------------------
(* Output lines.  A line is described by what the scan asks of it:        *)
(*   rpc      "RPC listening on port" in line                             *)
(*   words    line.split("port")[1].strip().split(), a sequence of tokens *)
(*   post     "POST requests should hit" in line                          *)
(*   parts    len(line.split("POST requests should hit"))                 *)
(*   http     parts[1].strip().startswith("http://")                      *)
(*   hostPort url.split("/")[2].split(":"), a sequence of tokens          *)

NoiseLine ==
    [rpc |-> FALSE, words |-> <<>>, post |-> FALSE, parts |-> 1,
     http |-> FALSE, hostPort |-> <<>>]

RpcLine(ws) ==
    [rpc |-> TRUE, words |-> ws, post |-> FALSE, parts |-> 1,
     http |-> FALSE, hostPort |-> <<>>]

PostLine(isHttp, hp) ==
    [rpc |-> FALSE, words |-> <<>>, post |-> TRUE, parts |-> 2,
     http |-> isHttp, hostPort |-> hp]

Host == <<"h">>

Lines ==
    { NoiseLine,
      RpcLine(<< <<"5">> >>),             \* "RPC listening on port 5"
      RpcLine(<< <<"6">> >>),             \* "RPC listening on port 6"
      RpcLine(<< <<"0">> >>),             \* "RPC listening on port 0"
      RpcLine(<< <<"-", "3">> >>),        \* "RPC listening on port -3"
      RpcLine(<< <<"x">> >>),             \* "RPC listening on port x"
      PostLine(TRUE, <<Host, <<"7">> >>), \* "... hit http://h:7/transmission/rpc"
      PostLine(TRUE, <<Host>>),           \* "... hit http://h/transmission/rpc"
      PostLine(FALSE, <<Host, <<"7">> >>) \* "... hit https://h:7/transmission/rpc"
    }

\* lines 101-105: int(line.split("port")[1].strip().split()[0]) under
\* try/except: None when the expression raises
RpcPort(line) ==
    IF line.words = <<>> THEN None ELSE ParseInt(line.words[1])

\* line 106-112 reaches int(host_port.split(":")[1])
PostParses(line) == line.parts = 2 /\ line.http

\* line 112: int(host_port.split(":")[1]); None when it raises
PostPort(line) ==
    IF Len(line.hostPort) < 2 THEN None ELSE ParseInt(line.hostPort[2])

\* a history helper: the first non-zero port assigned
NoteFirst(first, p) == IF first = None /\ Truthy(p) THEN p ELSE first

\* lines 101-112: the body of the for loop, on the scan state
\* [port, first, raised]
ScanLine(line, st) ==
    LET p1 == IF line.rpc /\ RpcPort(line) # None THEN RpcPort(line) ELSE st.port
        f1 == NoteFirst(st.first, p1)
    IN IF line.post /\ p1 = None /\ PostParses(line)
       THEN IF PostPort(line) = None
            THEN [port |-> p1, first |-> f1, raised |-> TRUE]
            ELSE [port |-> PostPort(line),
                  first |-> NoteFirst(f1, PostPort(line)),
                  raised |-> FALSE]
       ELSE [port |-> p1, first |-> f1, raised |-> FALSE]

\* line 100: for line in reversed(output_lines)
RECURSIVE ScanFrom(_, _, _)
ScanFrom(lines, i, st) ==
    IF i = 0 \/ st.raised THEN st
    ELSE ScanFrom(lines, i - 1, ScanLine(lines[i], st))

ScanLog(lines, p, first) ==
    ScanFrom(lines, Len(lines), [port |-> p, first |-> first, raised |-> FALSE])

----------------------------------------------------------------------------
(* connection.json *)

ProcPid == 222
StalePid == 111
StalePort == 9

NoFile == [kind |-> "missing", pid |-> 0, isInt |-> FALSE, port |-> 0]
Garbage == [kind |-> "garbage", pid |-> 0, isInt |-> FALSE, port |-> 0]
JsonFile(pid, isInt, p) ==
    [kind |-> "json", pid |-> pid, isInt |-> isInt, port |-> p]

FileStates ==
    { NoFile, Garbage,
      JsonFile(ProcPid, TRUE, 8),
      JsonFile(ProcPid, TRUE, 0),
      JsonFile(ProcPid, FALSE, 0),        \* "port" is not an integer
      JsonFile(StalePid, TRUE, StalePort) }

\* read_connection_port without the comparison of line 55
read_connection_port_NoPidCheck(f, expected_pid) ==
    IF f.kind # "json" THEN None
    ELSE IF f.isInt /\ f.port # 0 THEN Some(f.port)
    ELSE None

\* lines 49-62
read_connection_port(f, expected_pid) ==
    IF f.kind # "json" THEN None
    ELSE IF f.pid # expected_pid THEN None
    ELSE IF f.isInt /\ f.port # 0 THEN Some(f.port)
    ELSE None

----------------------------------------------------------------------------
(* Bytes, and the frames of the streaming channel *)

\* bufsize of sock.recv
RecvSize == 4096
\* the ceiling on len(response), line 225 (65536), scaled to the lengths
\* of the responses of the model
Ceiling == 12
\* a recv that finds more than MaxSplit bytes waiting returns all it can
\* take; up to MaxSplit bytes it returns any number of them
MaxSplit == 20

Min(a, b) == IF a < b THEN a ELSE b

\* the slices s[:n] and s[n:]
Take(s, n) == SubSeq(s, 1, Min(n, Len(s)))
Drop(s, n) == SubSeq(s, Min(n, Len(s)) + 1, Len(s))

\* b"\r\n\r\n"
Terminator == <<13, 10, 13, 10>>
\* b"101"
Status101 == <<49, 48, 49>>
\* b"403"
Status403 == <<52, 48, 51>>

\* `needle in hay`, at position i
OccursAt(needle, hay, i) ==
    /\ i + Len(needle) - 1 <= Len(hay)
    /\ \A j \in 1..Len(needle) : hay[i + j - 1] = needle[j]

\* needle in hay
Contains(needle, hay) ==
    \E i \in 1..(Len(hay) - Len(needle) + 1) : OccursAt(needle, hay, i)

\* the position of the first occurrence of needle in hay
FirstAt(needle, hay) ==
    CHOOSE i \in 1..(Len(hay) - Len(needle) + 1) :
        /\ OccursAt(needle, hay, i)
        /\ \A k \in 1..(i - 1) : ~OccursAt(needle, hay, k)

\* line 227: response.split(b"\r\n\r\n", 1)
HeaderBlob(resp) == Take(resp, FirstAt(Terminator, resp) - 1)
Leftover(resp) == Drop(resp, FirstAt(Terminator, resp) + Len(Terminator) - 1)

\* a ^ b on bytes
RECURSIVE Xor(_, _)
Xor(a, b) ==
    IF a = 0 THEN b
    ELSE IF b = 0 THEN a
    ELSE ((a + b) % 2) + 2 * Xor(a \div 2, b \div 2)

\* int.from_bytes(bs, "big")
RECURSIVE FromBytesBig(_)
FromBytesBig(bs) ==
    IF bs = <<>> THEN 0
    ELSE 256 * FromBytesBig(Take(bs, Len(bs) - 1)) + bs[Len(bs)]

\* the unmasking with the key taken from index 1 on: mask[(i + 1) % 4]
Unmask_KeyShifted(payload, key) ==
    [i \in 1..Len(payload) |-> Xor(payload[i], key[(i % 4) + 1])]

\* line 256: bytes(b ^ mask[i % 4] for i, b in enumerate(payload))
Unmask(payload, key) ==
    [i \in 1..Len(payload) |-> Xor(payload[i], key[((i - 1) % 4) + 1])]

\* the reference encoder: n as k bytes, big-endian
RECURSIVE ToBytesBig(_, _)
ToBytesBig(n, k) ==
    IF k = 0 THEN <<>>
    ELSE Append(ToBytesBig(n \div 256, k - 1), n % 256)

\* the reference encoder: byte i (from 0) of the payload XOR key[i mod 4]
RefMasked(payload, key) ==
    [i \in 1..Len(payload) |->
        LET k == key[((i - 1) % 4) + 1]
            b == payload[i]
        IN Xor(b, k)]

\* the reference encoder: the frame of a payload; key is <<>> for an
\* unmasked frame, else the 4-byte masking key
Encode(payload, key) ==
    LET n == Len(payload)
        maskBit == IF key = <<>> THEN 0 ELSE 128
        head == IF n <= 125 THEN <<129, maskBit + n>>
                ELSE IF n <= 65535 THEN <<129, maskBit + 126>> \o ToBytesBig(n, 2)
                ELSE <<129, maskBit + 127>> \o ToBytesBig(n, 8)
    IN IF key = <<>> THEN head \o payload
       ELSE head \o key \o RefMasked(payload, key)

----------------------------------------------------------------------------
(* post_rpc, lines 125-140: what it returns for an answer of the service.  *)
(* `data` is the decoded JSON of the body, or the body text when it is no  *)
(* JSON (lines 136-139).  A JSON object is described by what the scenarios *)
(* ask of it: arguments.server-version, arguments.server-class and         *)
(* arguments.code (0 when absent)                                          *)

TextBody == [kind |-> "text", version |-> "", class |-> "", code |-> 0]

ObjectBody(version, class, code) ==
    [kind |-> "object", version |-> version, class |-> class, code |-> code]

CapsBody == ObjectBody("TinyTorrent 1.1.0", "tinytorrent", 0)

Bodies ==
    { TextBody,
      CapsBody,
      ObjectBody("TinyTorrent 1.0.0", "tinytorrent", 0),
      ObjectBody("", "", 4001),
      ObjectBody("", "", 4002),
      ObjectBody("", "", 4003) }

Statuses == {200, 403, 500}

Replies == [status : Statuses, data : Bodies]

\* the status held when no call has been answered
NoReply == 0

\* lines 144-148
CapabilitiesOutcome(r) ==
    IF r.status # 200 THEN "AssertionError"
    ELSE IF r.data.kind # "object" THEN "AttributeError"
    ELSE IF r.data.version # "TinyTorrent 1.1.0" THEN "AssertionError"
    ELSE IF r.data.class # "tinytorrent" THEN "AssertionError"
    ELSE "pass"

\* lines 155-160
OriginOutcome(r) ==
    IF r.status = 403 THEN "pass"
    ELSE IF r.status = 200 THEN "pass"
    ELSE "AssertionError"

\* lines 156 and 158: the line printed when the scenario passes
OriginMessage(r) ==
    IF r.status = 403 THEN "ok origin lock enforced"
    ELSE "warn origin lock bypassed"

\* lines 175-178 (codes = {4002}) and 186-189 (codes = {4001, 4003})
CodeOutcome(r, codes) ==
    IF r.status # 200 THEN "AssertionError"
    ELSE IF r.data.kind # "object" THEN "AttributeError"
    ELSE IF r.data.code \notin codes THEN "AssertionError"
    ELSE "pass"

----------------------------------------------------------------------------
(* The state after construction *)

Init ==
    /\ pc = "start"
    /\ procState = "none"
    /\ mainProc = FALSE
    /\ terminated = FALSE
    /\ killed = FALSE
    /\ output_lines = <<>>
    /\ file \in {NoFile, JsonFile(StalePid, TRUE, StalePort)}
    /\ port = None
    /\ firstPort = None
    /\ now = 0
    /\ deadline = 0
    /\ err = "none"
    /\ reply = NoReply
    /\ said = "none"
    /\ wsPc = "idle"
    /\ wire = <<>>
    /\ wireEof = FALSE
    /\ response = <<>>
    /\ buffer = <<>>
    /\ hdr2 = 0
    /\ length = 0
    /\ mask = <<>>
    /\ payloads = <<>>
    /\ wsErr = "none"
    /\ wsNow = 0
    /\ sent = <<>>
    /\ taken = <<>>
    /\ frameIn = [payload |-> <<>>, key |-> <<>>, trailing |-> <<>>]

DiscoveryPcs == {"loop", "poll", "scan", "file", "sleep", "after"}

----------------------------------------------------------------------------
(* The environment: the child process, its output, the state file, time *)

\* reader(), lines 88-91: one line of the child's output is appended
ReaderAppend ==
    /\ procState # "none"
    /\ Len(output_lines) < MaxLines
    /\ \E l \in Lines : output_lines' = Append(output_lines, l)
    /\ UNCHANGED wsVars
    /\ UNCHANGED <<reply, said>>
    /\ UNCHANGED <<pc, procState, mainProc, terminated, killed, file, port,
                   firstPort, now, deadline, err>>

\* the child exits by itself
ProcExit ==
    /\ procState = "running"
    /\ procState' = "exited"
    /\ UNCHANGED wsVars
    /\ UNCHANGED <<reply, said>>
    /\ UNCHANGED <<pc, mainProc, terminated, killed, output_lines, file, port,
                   firstPort, now, deadline, err>>

\* connection.json is written
WriteFile ==
    /\ procState = "running"
    /\ pc \in DiscoveryPcs
    /\ \E f \in FileStates : file' = f /\ f # file
    /\ UNCHANGED wsVars
    /\ UNCHANGED <<reply, said>>
    /\ UNCHANGED <<pc, procState, mainProc, terminated, killed, output_lines,
                   port, firstPort, now, deadline, err>>

\* time passes while discovery runs
Tick ==
    /\ pc \in DiscoveryPcs
    /\ now < deadline
    /\ now' = now + 1
    /\ UNCHANGED wsVars
    /\ UNCHANGED <<reply, said>>
    /\ UNCHANGED <<pc, procState, mainProc, terminated, killed, output_lines,
                   file, port, firstPort, deadline, err>>

----------------------------------------------------------------------------
(* start_backend, lines 73-122 *)

\* lines 79-96: Popen, the reader thread, port = None, the deadline.
\* Popen raising leaves no process.
StartBackend ==
    /\ pc = "start"
    /\ \/ /\ procState' = "running"
          /\ deadline' = now + DeadlineTicks
          /\ pc' = "loop"
          /\ err' = err
       \/ /\ procState' = procState
          /\ deadline' = deadline
          /\ pc' = "finally"
          /\ err' = "LaunchFailure"
    /\ UNCHANGED wsVars
    /\ UNCHANGED <<reply, said>>
    /\ UNCHANGED <<mainProc, terminated, killed, output_lines, file, port,
                   firstPort, now>>

\* the loop of line 97 without its deadline: while True
LoopTest_NoDeadline ==
    /\ pc = "loop"
    /\ pc' = "poll"
    /\ UNCHANGED wsVars
    /\ UNCHANGED <<reply, said>>
    /\ UNCHANGED <<procState, mainProc, terminated, killed, output_lines,
                   file, port, firstPort, now, deadline, err>>

\* line 97: while time.time() < deadline
LoopTest ==
    /\ pc = "loop"
    /\ pc' = IF now < deadline THEN "poll" ELSE "after"
    /\ UNCHANGED wsVars
    /\ UNCHANGED <<reply, said>>
    /\ UNCHANGED <<procState, mainProc, terminated, killed, output_lines,
                   file, port, firstPort, now, deadline, err>>

\* lines 98-99: if proc.poll() is not None: raise
PollProc ==
    /\ pc = "poll"
    /\ IF procState = "exited"
       THEN pc' = "finally" /\ err' = "ProcessExited"
       ELSE pc' = "scan" /\ err' = err
    /\ UNCHANGED wsVars
    /\ UNCHANGED <<reply, said>>
    /\ UNCHANGED <<procState, mainProc, terminated, killed, output_lines,
                   file, port, firstPort, now, deadline>>

\* lines 100-115: the scan of the log, `if port: break`, `if port is None`
Scan ==
    /\ pc = "scan"
    /\ LET st == ScanLog(output_lines, port, firstPort)
       IN /\ port' = st.port
          /\ firstPort' = st.first
          /\ IF st.raised
             THEN pc' = "finally" /\ err' = "ValueError"
             ELSE /\ err' = err
                  /\ pc' = IF Truthy(st.port) THEN "after"
                           ELSE IF st.port = None THEN "file"
                           ELSE "sleep"
    /\ UNCHANGED wsVars
    /\ UNCHANGED <<reply, said>>
    /\ UNCHANGED <<procState, mainProc, terminated, killed, output_lines,
                   file, now, deadline>>

\* lines 116-118: port = read_connection_port(proc.pid); if port: break
ReadFile ==
    /\ pc = "file"
    /\ port' = read_connection_port(file, ProcPid)
    /\ firstPort' = NoteFirst(firstPort, port')
    /\ pc' = IF Truthy(port') THEN "after" ELSE "sleep"
    /\ UNCHANGED wsVars
    /\ UNCHANGED <<reply, said>>
    /\ UNCHANGED <<procState, mainProc, terminated, killed, output_lines,
                   file, now, deadline, err>>

\* line 119: time.sleep(0.1)
Sleep ==
    /\ pc = "sleep"
    /\ now' = IF now < deadline THEN now + 1 ELSE now
    /\ pc' = "loop"
    /\ UNCHANGED wsVars
    /\ UNCHANGED <<reply, said>>
    /\ UNCHANGED <<procState, mainProc, terminated, killed, output_lines,
                   file, port, firstPort, deadline, err>>

\* lines 120-122 and main line 280: raise, or return proc, port
AfterLoop ==
    /\ pc = "after"
    /\ IF port = None
       THEN pc' = "finally" /\ err' = "DiscoveryTimeout" /\ mainProc' = mainProc
       ELSE pc' = "test_capabilities" /\ err' = err /\ mainProc' = TRUE
    /\ UNCHANGED wsVars
    /\ UNCHANGED <<reply, said>>
    /\ UNCHANGED <<procState, terminated, killed, output_lines, file, port,
                   firstPort, now, deadline>>

----------------------------------------------------------------------------
(* main, lines 275-293: the scenarios and the finally block *)

\* a scenario that raises does not end the run: the next one is started
ScenarioEnds_KeepsGoing(next, outcome, message, status) ==
    /\ reply' = status
    /\ pc' = next
    /\ err' = (IF outcome = "pass" THEN err ELSE outcome)
    /\ said' = (IF outcome = "pass" THEN message ELSE said)
    /\ UNCHANGED wsVars
    /\ UNCHANGED <<procState, mainProc, terminated, killed, output_lines,
                   file, port, firstPort, now, deadline>>

\* a scenario that has made its call returns and prints its line, or
\* raises; `status` is the status of the answer post_rpc returned
ScenarioEnds(next, outcome, message, status) ==
    /\ reply' = status
    /\ IF outcome = "pass"
       THEN pc' = next /\ err' = err /\ said' = message
       ELSE pc' = "finally" /\ err' = outcome /\ said' = said
    /\ UNCHANGED wsVars
    /\ UNCHANGED <<procState, mainProc, terminated, killed, output_lines,
                   file, port, firstPort, now, deadline>>

\* lines 126-133: the connection fails and post_rpc raises
CallFails ==
    /\ pc' = "finally"
    /\ err' = "OSError"
    /\ UNCHANGED wsVars
    /\ UNCHANGED <<procState, mainProc, terminated, killed, output_lines,
                   file, port, firstPort, now, deadline, reply, said>>

\* line 282
TestCapabilities ==
    /\ pc = "test_capabilities"
    /\ \/ CallFails
       \/ \E r \in Replies :
             ScenarioEnds("test_origin_block", CapabilitiesOutcome(r),
                          "ok capability", r.status)

\* test_origin_block with `and the body is a JSON object` added to the
\* tests of lines 155 and 157
TestOriginBlock_NeedsObject ==
    /\ pc = "test_origin_block"
    /\ \/ CallFails
       \/ \E r \in Replies :
             ScenarioEnds("test_torrent_errors",
                          IF r.data.kind = "object" THEN OriginOutcome(r)
                          ELSE "AssertionError",
                          OriginMessage(r), r.status)

\* line 283
TestOriginBlock ==
    /\ pc = "test_origin_block"
    /\ \/ CallFails
       \/ \E r \in Replies :
             ScenarioEnds("test_torrent_errors", OriginOutcome(r),
                          OriginMessage(r), r.status)

\* line 284, lines 163-179: the first call of test_torrent_errors
TestTorrentErrors ==
    /\ pc = "test_torrent_errors"
    /\ \/ CallFails
       \/ \E r \in Replies :
             ScenarioEnds("test_torrent_errors_2", CodeOutcome(r, {4002}),
                          "ok 4002", r.status)

\* lines 181-190: the second call of test_torrent_errors
TestTorrentErrors2 ==
    /\ pc = "test_torrent_errors_2"
    /\ \/ CallFails
       \/ \E r \in Replies :
             ScenarioEnds("websocket_sequence", CodeOutcome(r, {4001, 4003}),
                          "ok 4001/4003", r.status)

\* the exceptions websocket_sequence raises (lines 204, 221-229, 235-237,
\* 266-267, 272)
WsFailures == {"OSError", "RuntimeError", "AttributeError", "AssertionError"}

\* lines 285-286: websocket_sequence returns and main prints its last
\* line, or websocket_sequence raises
WebsocketSequence ==
    /\ pc = "websocket_sequence"
    /\ \/ pc' = "finally" /\ err' = err /\ said' = "all passed"
       \/ \E e \in WsFailures : pc' = "finally" /\ err' = e /\ said' = said
    /\ UNCHANGED wsVars
    /\ UNCHANGED <<procState, mainProc, terminated, killed, output_lines,
                   file, port, firstPort, now, deadline, reply>>

\* lines 287-289: finally: if proc: proc.terminate(); the scenario's
\* locals (status, body) are gone by then
Finally ==
    /\ pc = "finally"
    /\ IF mainProc
       THEN terminated' = TRUE /\ pc' = "wait"
       ELSE terminated' = terminated /\ pc' = "exit"
    /\ reply' = NoReply
    /\ said' = said
    /\ UNCHANGED wsVars
    /\ UNCHANGED <<procState, mainProc, killed, output_lines, file, port,
                   firstPort, now, deadline, err>>

\* lines 290-291: proc.wait(timeout=5) returns, the process has exited
WaitReturns ==
    /\ pc = "wait"
    /\ procState = "exited"
    /\ pc' = "exit"
    /\ UNCHANGED wsVars
    /\ UNCHANGED <<reply, said>>
    /\ UNCHANGED <<procState, mainProc, terminated, killed, output_lines,
                   file, port, firstPort, now, deadline, err>>

\* teardown that calls proc.kill() whether or not proc.wait() timed out
WaitTimesOut_KillsAlways ==
    /\ pc = "wait"
    /\ killed' = TRUE
    /\ procState' = "exited"
    /\ pc' = "exit"
    /\ UNCHANGED wsVars
    /\ UNCHANGED <<reply, said>>
    /\ UNCHANGED <<mainProc, terminated, output_lines, file, port, firstPort,
                   now, deadline, err>>

\* lines 292-293: TimeoutExpired, proc.kill()
WaitTimesOut ==
    /\ pc = "wait"
    /\ procState = "running"
    /\ killed' = TRUE
    /\ procState' = "exited"
    /\ pc' = "exit"
    /\ UNCHANGED wsVars
    /\ UNCHANGED <<reply, said>>
    /\ UNCHANGED <<mainProc, terminated, output_lines, file, port, firstPort,
                   now, deadline, err>>

----------------------------------------------------------------------------

MainStep ==
    \/ StartBackend
    \/ LoopTest
    \/ PollProc
    \/ Scan
    \/ ReadFile
    \/ Sleep
    \/ AfterLoop
    \/ TestCapabilities
    \/ TestOriginBlock
    \/ TestTorrentErrors
    \/ TestTorrentErrors2
    \/ WebsocketSequence
    \/ Finally
    \/ WaitReturns
    \/ WaitTimesOut

EnvStep ==
    \/ ReaderAppend
    \/ ProcExit
    \/ WriteFile
    \/ Tick

Next == MainStep \/ EnvStep

Spec == Init /\ [][Next]_vars

\* the main thread is a running Python thread: it always takes its next step
FairSpec == Spec /\ WF_vars(MainStep)

----------------------------------------------------------------------------
(* websocket_sequence, lines 203-272: the handshake and the frame reader *)

\* the sizes of the chunk a sock.recv(4096) may return when avail bytes
\* have not been received yet
RecvChoices(avail) ==
    IF avail <= MaxSplit THEN 1..Min(RecvSize, avail)
    ELSE {Min(RecvSize, avail)}

\* the error of a recv that returns no data: b"" when the peer has closed,
\* socket.timeout (the 5 s timeout of line 204) when it stays silent
HandshakeRecvError ==
    IF wireEof THEN "handshake failed (socket closed)" ELSE "timed out"

FrameRecvError == IF wireEof THEN "socket closed" ELSE "timed out"

\* lines 220-226: one turn of the loop that reads the response
HandshakeRecv ==
    /\ wsPc = "handshake"
    /\ ~Contains(Terminator, response)
    /\ IF wire = <<>>
       THEN /\ wsPc' = "failed"
            /\ wsErr' = HandshakeRecvError
            /\ UNCHANGED <<wire, response>>
       ELSE \E n \in RecvChoices(Len(wire)) :
              /\ response' = response \o Take(wire, n)
              /\ wire' = Drop(wire, n)
              /\ IF Len(response') > Ceiling
                 THEN wsPc' = "failed" /\ wsErr' = "handshake failed (oversized response)"
                 ELSE wsPc' = "handshake" /\ wsErr' = wsErr
    /\ UNCHANGED <<wireEof, buffer, hdr2, length, mask, payloads, sent, taken,
                   frameIn>>
    /\ UNCHANGED wsNow
    /\ UNCHANGED mainVars

\* the split of line 227 with the leftover thrown away
HandshakeSplit_DropLeftover ==
    /\ wsPc = "handshake"
    /\ Contains(Terminator, response)
    /\ IF Contains(Status101, HeaderBlob(response))
       THEN wsPc' = "hdr" /\ wsErr' = wsErr /\ buffer' = <<>>
       ELSE wsPc' = "failed" /\ wsErr' = "handshake failed" /\ buffer' = buffer
    /\ UNCHANGED <<wire, wireEof, response, hdr2, length, mask, payloads, sent,
                   taken, frameIn>>
    /\ UNCHANGED wsNow
    /\ UNCHANGED mainVars

\* lines 227-231: the split, the status test, buffer = bytearray(leftover)
HandshakeSplit ==
    /\ wsPc = "handshake"
    /\ Contains(Terminator, response)
    /\ IF Contains(Status101, HeaderBlob(response))
       THEN wsPc' = "hdr" /\ wsErr' = wsErr /\ buffer' = Leftover(response)
       ELSE wsPc' = "failed" /\ wsErr' = "handshake failed" /\ buffer' = buffer
    /\ UNCHANGED <<wire, wireEof, response, hdr2, length, mask, payloads, sent,
                   taken, frameIn>>
    /\ UNCHANGED wsNow
    /\ UNCHANGED mainVars

FrameStages == {"hdr", "len2", "len8", "mask", "payload"}

\* the count read_frame passes to recv_exact_ws at each stage
Need ==
    CASE wsPc = "hdr" -> 2
      [] wsPc = "len2" -> 2
      [] wsPc = "len8" -> 8
      [] wsPc = "mask" -> 4
      [] wsPc = "payload" -> length

\* lines 234-238: one turn of recv_exact_ws's loop
RecvExactLoop ==
    /\ wsPc \in FrameStages
    /\ Len(buffer) < Need
    /\ IF wire = <<>>
       THEN /\ wsPc' = "failed"
            /\ wsErr' = FrameRecvError
            /\ UNCHANGED <<wire, buffer>>
       ELSE \E n \in RecvChoices(Len(wire)) :
              /\ buffer' = buffer \o Take(wire, n)
              /\ wire' = Drop(wire, n)
              /\ UNCHANGED <<wsPc, wsErr>>
    /\ UNCHANGED <<wireEof, response, hdr2, length, mask, payloads, sent,
                   taken, frameIn>>
    /\ UNCHANGED wsNow
    /\ UNCHANGED mainVars

\* lines 239-241: out = bytes(buffer[:count]); del buffer[:count]
RecvExactOut(count) == Take(buffer, count)

RecvExactTake(count) ==
    /\ Len(buffer) >= count
    /\ buffer' = Drop(buffer, count)
    /\ taken' = taken \o RecvExactOut(count)

\* the stage after the length is known, lines 250-254
AfterLength(h2) == IF h2 >= 128 THEN "mask" ELSE "payload"

\* lines 244-246: header = recv_exact_ws(2); length = header[1] & 0x7F
ReadHeader ==
    /\ wsPc = "hdr"
    /\ RecvExactTake(2)
    /\ LET header == RecvExactOut(2)
       IN /\ hdr2' = header[2]
          /\ length' = header[2] % 128
          /\ wsPc' = IF length' = 126 THEN "len2"
                     ELSE IF length' = 127 THEN "len8"
                     ELSE AfterLength(header[2])
    /\ mask' = <<>>
    /\ UNCHANGED <<wire, wireEof, response, payloads, wsErr, sent, frameIn>>
    /\ UNCHANGED wsNow
    /\ UNCHANGED mainVars

\* lines 246-249: the extended length
ReadLength ==
    /\ wsPc \in {"len2", "len8"}
    /\ RecvExactTake(Need)
    /\ length' = FromBytesBig(RecvExactOut(Need))
    /\ wsPc' = AfterLength(hdr2)
    /\ UNCHANGED <<wire, wireEof, response, hdr2, mask, payloads, wsErr, sent,
                   frameIn>>
    /\ UNCHANGED wsNow
    /\ UNCHANGED mainVars

\* lines 250-251: mask = recv_exact_ws(4)
ReadMask ==
    /\ wsPc = "mask"
    /\ RecvExactTake(4)
    /\ mask' = RecvExactOut(4)
    /\ wsPc' = "payload"
    /\ UNCHANGED <<wire, wireEof, response, hdr2, length, payloads, wsErr,
                   sent, frameIn>>
    /\ UNCHANGED wsNow
    /\ UNCHANGED mainVars

\* the receive loop gives up WsDeadlineTicks ticks after line 259 (10 s)
WsDeadlineTicks == 2

\* the JSON texts of the model, as bytes
\* {"type":"sync-patch","sequence":1}
DocPatchText ==
    <<123, 34, 116, 121, 112, 101, 34, 58, 34, 115, 121, 110, 99, 45, 112,
      97, 116, 99, 104, 34, 44, 34, 115, 101, 113, 117, 101, 110, 99, 101,
      34, 58, 49, 125>>
\* {"type":"sync-patch"}
DocPatchNoSequenceText ==
    <<123, 34, 116, 121, 112, 101, 34, 58, 34, 115, 121, 110, 99, 45, 112,
      97, 116, 99, 104, 34, 125>>
\* {"type":"stats","sequence":1}
DocSequenceOnlyText ==
    <<123, 34, 116, 121, 112, 101, 34, 58, 34, 115, 116, 97, 116, 115, 34,
      44, 34, 115, 101, 113, 117, 101, 110, 99, 101, 34, 58, 49, 125>>
\* {"type":"stats"}
DocOtherText ==
    <<123, 34, 116, 121, 112, 101, 34, 58, 34, 115, 116, 97, 116, 115, 34,
      125>>
\* [1]
DocArrayText == <<91, 49, 93>>
\* "sequence"
DocStringText == <<34, 115, 101, 113, 117, 101, 110, 99, 101, 34>>
\* hello
DocNoJsonText == <<104, 101, 108, 108, 111>>

\* what the loop asks of a decoded value: is it a dict, data.get("type"),
\* "sequence" in data
JsonObject(type, sequence) ==
    [kind |-> "object", type |-> type, sequence |-> sequence]
JsonOther(kind) == [kind |-> kind, type |-> "", sequence |-> FALSE]

\* the JSON texts and the values json.loads makes of them
Docs ==
    { [text |-> DocPatchText, value |-> JsonObject("sync-patch", TRUE)],
      [text |-> DocPatchNoSequenceText, value |-> JsonObject("sync-patch", FALSE)],
      [text |-> DocSequenceOnlyText, value |-> JsonObject("stats", TRUE)],
      [text |-> DocOtherText, value |-> JsonObject("stats", FALSE)],
      [text |-> DocArrayText, value |-> JsonOther("array")],
      [text |-> DocStringText, value |-> JsonOther("string")] }

\* json.loads skips the white space around the value
RECURSIVE StripSpaces(_)
StripSpaces(bs) ==
    IF bs # <<>> /\ bs[Len(bs)] = 32 THEN StripSpaces(Take(bs, Len(bs) - 1))
    ELSE bs

\* line 263: json.loads(payload.decode()); kind "invalid" stands for the
\* exception raised on bytes that are no UTF-8 or no JSON text, as is
\* every payload of the model that is not one of Docs
JsonLoads(payload) ==
    LET text == StripSpaces(payload)
    IN IF \E d \in Docs : d.text = text
       THEN (CHOOSE d \in Docs : d.text = text).value
       ELSE JsonOther("invalid")

\* lines 262-270: what the loop does with a payload: "continue", "return"
\* or the exception raised
ReceiveOutcome(payload) ==
    LET data == JsonLoads(payload)
    IN IF data.kind = "invalid" THEN "continue"
       ELSE IF data.kind # "object" THEN "AttributeError"
       ELSE IF data.type = "sync-patch" \/ data.sequence
            THEN IF data.sequence THEN "return" ELSE "AssertionError"
       ELSE "continue"

\* lines 260-272: after read_frame has returned payload
Receive(payload) ==
    LET outcome == ReceiveOutcome(payload)
    IN IF outcome = "return"
       THEN wsPc' = "passed" /\ wsErr' = wsErr
       ELSE IF outcome = "continue"
       THEN IF wsNow < WsDeadlineTicks
            THEN wsPc' = "hdr" /\ wsErr' = wsErr
            ELSE /\ wsPc' = "failed"
                 /\ wsErr' = "no sync-patch received with sequence"
       ELSE wsPc' = "failed" /\ wsErr' = outcome

\* lines 254-257: payload = recv_exact_ws(length), unmasked `if mask`
FramePayload(raw, key) == IF key # <<>> THEN Unmask(raw, key) ELSE raw

\* a frame reader whose recv_exact_ws returns what it has when the peer
\* has closed
ReadPayload_Short ==
    /\ wsPc = "payload"
    /\ (Len(buffer) >= length \/ wire = <<>>)
    /\ buffer' = Drop(buffer, length)
    /\ taken' = taken \o RecvExactOut(length)
    /\ payloads' = Append(payloads, FramePayload(RecvExactOut(length), mask))
    /\ Receive(FramePayload(RecvExactOut(length), mask))
    /\ UNCHANGED <<wire, wireEof, response, hdr2, length, mask, sent, frameIn>>
    /\ UNCHANGED wsNow
    /\ UNCHANGED mainVars

\* lines 254-257: the frame is returned to the loop of lines 260-272
ReadPayload ==
    /\ wsPc = "payload"
    /\ RecvExactTake(length)
    /\ payloads' = Append(payloads, FramePayload(RecvExactOut(length), mask))
    /\ Receive(FramePayload(RecvExactOut(length), mask))
    /\ UNCHANGED <<wire, wireEof, response, hdr2, length, mask, sent, frameIn>>
    /\ UNCHANGED wsNow
    /\ UNCHANGED mainVars

HandshakeStep == HandshakeRecv \/ HandshakeSplit

FrameStep ==
    \/ RecvExactLoop
    \/ ReadHeader
    \/ ReadLength
    \/ ReadMask
    \/ ReadPayload

\* time passes while the receive loop runs, up to its deadline
WsTick ==
    /\ wsPc \in FrameStages
    /\ wsNow < WsDeadlineTicks
    /\ wsNow' = wsNow + 1
    /\ UNCHANGED <<wsPc, wire, wireEof, response, buffer, hdr2, length, mask,
                   payloads, wsErr, sent, taken, frameIn>>
    /\ UNCHANGED mainVars

----------------------------------------------------------------------------
(* The state in which main calls websocket_sequence (line 285), and the    *)
(* streams the server may send                                             *)

MainAtWebsocket ==
    /\ pc = "websocket_sequence"
    /\ procState = "running"
    /\ mainProc = TRUE
    /\ terminated = FALSE
    /\ killed = FALSE
    /\ output_lines = << RpcLine(<< <<"5">> >>) >>
    /\ file = NoFile
    /\ port = Some(5)
    /\ firstPort = Some(5)
    /\ now = 0
    /\ deadline = DeadlineTicks
    /\ err = "none"
    /\ reply = 200
    /\ said = "ok 4001/4003"

NoFrame == [payload |-> <<>>, key |-> <<>>, trailing |-> <<>>]

Key1 == <<1, 2, 3, 4>>
Key2 == <<0, 0, 0, 0>>
Key3 == <<255, 170, 85, 129>>

\* a payload of n bytes
Pattern(n, k) == [i \in 1..n |-> (i * k + 7) % 256]

\* the responses of the server: a header block, the terminator, frames
FullStreams ==
    { Status101 \o Terminator \o Encode(<<7>>, <<>>) \o Encode(<<>>, <<>>),
      Status101 \o Terminator \o Encode(<<7, 8>>, Key1),
      Status101 \o Terminator \o Encode(Terminator, <<>>),
      Status403 \o Terminator \o Encode(<<7>>, <<>>),
      Status403 \o <<32>> \o Status101 \o Terminator \o Encode(<<7>>, <<>>),
      Take(Status101 \o Terminator \o Encode(Pattern(126, 3), <<>>), 14),
      Take(Status101 \o Terminator \o Encode(Pattern(65536, 3), Key1), 20),
      [i \in 1..(Ceiling + 2) |-> IF i % 2 = 1 THEN 13 ELSE 10] }

\* every stream, cut at every byte
WsStreams == UNION { { Take(s, k) : k \in 0..Len(s) } : s \in FullStreams }

\* line 219, after the request was sent (lines 204-217)
WsInit ==
    /\ MainAtWebsocket
    /\ wsPc = "handshake"
    /\ wire \in WsStreams
    /\ wireEof \in BOOLEAN
    /\ response = <<>>
    /\ buffer = <<>>
    /\ hdr2 = 0
    /\ length = 0
    /\ mask = <<>>
    /\ payloads = <<>>
    /\ wsErr = "none"
    /\ wsNow = 0
    /\ sent = wire
    /\ taken = <<>>
    /\ frameIn = NoFrame

WsNext == HandshakeStep \/ FrameStep

WsSpec == WsInit /\ [][WsNext]_vars

----------------------------------------------------------------------------
(* read_frame on the frames of the reference encoder *)

FrameLengths == {0, 1, 2, 3, 5, 125, 126, 127, 65535, 65536}

FramePayloads ==
    { Pattern(n, k) : n \in FrameLengths \ {65535, 65536}, k \in {1, 3} }
        \cup { Pattern(n, 3) : n \in {65535, 65536} }

FrameKeys(p) == IF Len(p) > 65000 THEN {<<>>, Key3} ELSE {<<>>, Key1, Key2, Key3}

FrameTrailings == {<<>>, <<129, 1>>, <<129, 0, 0>>}

FrameInputs ==
    { [payload |-> p, key |-> k, trailing |-> t] :
        p \in FramePayloads, k \in {<<>>, Key1, Key2, Key3}, t \in FrameTrailings }

\* the handshake has been accepted with no leftover (line 231); the server
\* sends one frame of the reference encoder and the trailing bytes
FrameInit ==
    /\ MainAtWebsocket
    /\ wsPc = "hdr"
    /\ frameIn \in { f \in FrameInputs : f.key \in FrameKeys(f.payload) }
    /\ wire = Encode(frameIn.payload, frameIn.key) \o frameIn.trailing
    /\ wireEof = TRUE
    /\ response = Status101 \o Terminator
    /\ buffer = <<>>
    /\ hdr2 = 0
    /\ length = 0
    /\ mask = <<>>
    /\ payloads = <<>>
    /\ wsErr = "none"
    /\ wsNow = 0
    /\ sent = response \o wire
    /\ taken = <<>>

FrameSpec == FrameInit /\ [][FrameStep]_vars

----------------------------------------------------------------------------
(* The receive loop, lines 259-272, on the frames the server pushes *)

\* number of frames the server pushes
MaxFrames == 2

\* a JSON text followed by n spaces
Padded(text, n) == text \o [i \in 1..n |-> 32]

\* the frames the server pushes: a JSON text or other bytes, unmasked as
\* the protocol has the server send them, or masked; one text is long
\* enough for a 2-byte extended length
PushedFrames ==
    { [payload |-> t, key |-> <<>>] :
        t \in { DocPatchText, DocPatchNoSequenceText, DocSequenceOnlyText,
                DocOtherText, DocArrayText, DocStringText, DocNoJsonText,
                Padded(DocPatchText, 100) } }
      \cup { [payload |-> DocOtherText, key |-> Key1] }

PushedSeqs == UNION { [1..n -> PushedFrames] : n \in 0..MaxFrames }

\* the bytes of the frames of fs, in order
RECURSIVE WireOf(_)
WireOf(fs) ==
    IF fs = <<>> THEN <<>>
    ELSE Encode(fs[1].payload, fs[1].key) \o WireOf(Tail(fs))

\* the handshake has been accepted with no leftover (line 231) and the
\* deadline of line 259 is set; the server pushes its frames, then stays
\* silent or closes
StreamInit ==
    /\ MainAtWebsocket
    /\ wsPc = "hdr"
    /\ frameIn = NoFrame
    /\ wire \in { WireOf(fs) : fs \in PushedSeqs }
    /\ wireEof \in BOOLEAN
    /\ response = Status101 \o Terminator
    /\ buffer = <<>>
    /\ hdr2 = 0
    /\ length = 0
    /\ mask = <<>>
    /\ payloads = <<>>
    /\ wsErr = "none"
    /\ wsNow = 0
    /\ sent = response \o wire
    /\ taken = <<>>

StreamNext == FrameStep \/ WsTick

StreamSpec == StreamInit /\ [][StreamNext]_vars

----------------------------------------------------------------------------
(* Vocabulary of the claims *)

\* start_backend has returned (proc, port) to main
Returned == mainProc

\* the line carries a recognised announcement phrasing
Recognised(line) == line.rpc \/ line.post

\* the line is a recognised announcement of a non-zero port
AnnouncesPort(line) ==
    \/ line.rpc /\ Truthy(RpcPort(line))
    \/ line.post /\ PostParses(line) /\ Truthy(PostPort(line))

LogAnnouncesPort == \E i \in 1..Len(output_lines) : AnnouncesPort(output_lines[i])

\* the state file records the supervised pid and a non-zero integer port
ValidFile(f) == f.kind = "json" /\ f.pid = ProcPid /\ f.isInt /\ f.port # 0

StaleFile == JsonFile(StalePid, TRUE, StalePort)

----------------------------------------------------------------------------
(* C1 *)

\* C1: whenever the process was launched, the harness does not exit before
\* teardown has run: at exit a launched process was sent terminate or killed.
C1_TeardownAlways ==
    (pc = "exit" /\ procState # "none") => (terminated \/ killed)

(* C2 *)

\* C2: whenever start_backend returns, the port it returns is a positive
\* integer (never 0, negative or None).
C2_PortPositive == Returned => (port # None /\ port[1] > 0)

(* C3 *)

\* C3: once a non-zero port has been obtained from one signal no other
\* signal changes it: `port` stays the first non-zero port obtained, and
\* that is the port returned.
C3_FirstSignalWins == firstPort # None => port = firstPort

(* C4 *)

\* C4: a state file whose pid differs from the supervised pid never
\* determines the port: the port of the stale file is never held by `port`
\* and never returned, whether the log announces another port or nothing.
C4_StaleFileIgnored == port # Some(StalePort)

\* discovery returned the log's port while the stale file was in place
C4_Witness ==
    /\ Returned
    /\ file = StaleFile
    /\ port = Some(5)
    /\ LogAnnouncesPort

(* C5 *)

\* C5: a poll fails with ProcessExited only if the log holds no recognised
\* announcement of a non-zero port at that time.
C5_ExitedOnlyWithoutPort ==
    [][(err = "none" /\ err' = "ProcessExited") => ~LogAnnouncesPort]_vars

(* C6 *)

\* the hypothesis of C6 on the environment: the process is running, no
\* line of the log has a recognised phrasing, the state file is not valid
C6_Silent ==
    /\ procState = "running"
    /\ \A i \in 1..Len(output_lines) : ~Recognised(output_lines[i])
    /\ ~ValidFile(file)

C6_Hypothesis ==
    err # "LaunchFailure" /\ (pc \in DiscoveryPcs => C6_Silent)

\* the runs of the harness in which the environment keeps C6_Hypothesis;
\* discovery never returns in them, so main's scenarios are not among
\* the steps
SilentMain ==
    \/ StartBackend /\ C6_Hypothesis'
    \/ LoopTest /\ C6_Hypothesis'
    \/ PollProc /\ C6_Hypothesis'
    \/ Scan /\ C6_Hypothesis'
    \/ ReadFile /\ C6_Hypothesis'
    \/ Sleep /\ C6_Hypothesis'
    \/ AfterLoop /\ C6_Hypothesis'
    \/ Finally /\ C6_Hypothesis'

SilentEnv ==
    \/ ReaderAppend /\ C6_Hypothesis'
    \/ ProcExit /\ C6_Hypothesis'
    \/ WriteFile /\ C6_Hypothesis'
    \/ Tick /\ C6_Hypothesis'

SilentNext == SilentMain \/ SilentEnv

SilentFairSpec == Init /\ [][SilentNext]_vars /\ WF_vars(SilentMain)

C6_Outcome ==
    /\ ~Returned
    /\ err \in {"none", "DiscoveryTimeout"}
    /\ (err = "DiscoveryTimeout" => now >= deadline)

\* C6: if the process stays running during discovery, no line with a
\* recognised phrasing is ever in the log and no valid state file ever
\* appears, then discovery fails with DiscoveryTimeout, not before the
\* deadline, with no other error, and never returns a port.
C6_TimeoutWhenSilent ==
    []C6_Hypothesis => (<>(err = "DiscoveryTimeout") /\ []C6_Outcome)

\* discovery timed out on a running process that wrote only unrecognised
\* lines, with a stale file in place
C6_Witness ==
    /\ pc = "finally"
    /\ err = "DiscoveryTimeout"
    /\ C6_Silent
    /\ output_lines # <<>>
    /\ file = StaleFile
    /\ now >= deadline

(* C7 *)

\* the first frame has just been returned by read_frame
C7_FirstFrameRead == Len(payloads) = 1 /\ wsPc = "hdr"

\* C7: read_frame applied to the frame the reference encoder makes of a
\* payload, masked with any key or unmasked, does not fail, returns the
\* payload and consumes exactly the bytes of the frame.
C7_RoundTrip ==
    /\ wsErr # "none" => Len(payloads) >= 1
    /\ Len(payloads) >= 1 => payloads[1] = frameIn.payload
    /\ C7_FirstFrameRead =>
          /\ taken = Encode(frameIn.payload, frameIn.key)
          /\ buffer \o wire = frameIn.trailing

\* a masked frame of 127 bytes (a 2-byte extended length, a payload
\* length that is no multiple of 4) was read back with trailing bytes left
C7_Witness ==
    /\ C7_FirstFrameRead
    /\ Len(frameIn.payload) = 127
    /\ frameIn.key = Key3
    /\ payloads[1] = Pattern(127, 3)
    /\ frameIn.trailing # <<>>

(* C8 *)

\* recv_exact_ws cannot be served: the buffer is short of the count asked
\* and the server sends nothing more
C8_Starved == wsPc \in FrameStages /\ Len(buffer) < Need /\ wire = <<>>

\* C8: when the connection ends before all the bytes of a frame have been
\* received, the only step of read_frame is to fail, without returning a
\* payload; and every payload returned has the declared length.
C8_NoTruncatedFrame ==
    [][/\ C8_Starved =>
            /\ wsPc' = "failed"
            /\ wsErr' \in {"socket closed", "timed out"}
            /\ payloads' = payloads
       /\ Len(payloads') > Len(payloads) =>
            Len(payloads'[Len(payloads')]) = length]_vars

\* the peer closed inside the payload of a masked frame and read_frame
\* failed
C8_Witness ==
    /\ wsPc = "failed"
    /\ wsErr = "socket closed"
    /\ mask # <<>>
    /\ Len(buffer) > 0
    /\ Len(buffer) < length
    /\ payloads = <<>>

(* C9 *)

\* the bytes the server sent after the first header terminator
C9_AfterTerminator(s) ==
    SubSeq(s, FirstAt(Terminator, s) + 4, Len(s))

\* C9: after a successful handshake the bytes handed to the frame decoder,
\* those buffered and those still to be received are, in order, exactly
\* the bytes the server sent after the first terminator.
C9_DecoderInput ==
    wsPc \in FrameStages => taken \o buffer \o wire = C9_AfterTerminator(sent)

\* a frame was decoded from bytes that arrived in the read that brought
\* the terminator
C9_Witness ==
    /\ wsPc \in FrameStages
    /\ Len(Leftover(response)) >= 3
    /\ Len(payloads) >= 1
    /\ wire # <<>>

(* C10 *)

\* C10: a response whose header block, terminator included, ends within
\* the first Ceiling bytes is never rejected as oversized.
C10_HeaderWithinCeilingAccepted ==
    wsErr = "handshake failed (oversized response)"
        => ~Contains(Terminator, Take(sent, Ceiling))

(* C11 *)

\* the status of a response: the status code that opens it (the responses
\* of the model begin at the status code of the status line)
C11_Status(s) == Take(s, 3)

\* C11: the handshake is accepted, and a frame is read, only from a
\* response whose status is 101, whatever else its header block contains.
C11_OnlyStatus101Accepted ==
    (wsPc \in FrameStages \/ payloads # <<>>) => C11_Status(sent) = Status101

(* C12 *)

\* the payload decodes to an object with type == "sync-patch" and a
\* sequence field
C12_IsPatch(payload) ==
    LET data == JsonLoads(payload)
    IN data.kind = "object" /\ data.type = "sync-patch" /\ data.sequence

\* C12: the streaming scenario passes only if one of the frames decoded
\* before it returns carries both type == "sync-patch" and a sequence field.
C12_PassNeedsPatch ==
    wsPc = "passed" => \E i \in 1..Len(payloads) : C12_IsPatch(payloads[i])

(* C13 *)

\* the control points of main's calls, in the order of lines 280-285:
\* start_backend returning, then the scenarios (test_torrent_errors makes
\* two calls)
C13_Steps ==
    <<"after", "test_capabilities", "test_origin_block",
      "test_torrent_errors", "test_torrent_errors_2", "websocket_sequence">>

\* the place of a control point in C13_Steps, 0 when it is not in it
C13_Index(p) ==
    IF \E i \in 1..Len(C13_Steps) : C13_Steps[i] = p
    THEN CHOOSE i \in 1..Len(C13_Steps) : C13_Steps[i] = p
    ELSE 0

\* a scenario runs
C13_InScenario(p) == C13_Index(p) >= 2

C13_Ending == {"finally", "wait", "exit"}

\* C13: the scenarios run in the order capability, origin, structured
\* errors, streaming, one after another; the first starts only when
\* discovery has returned a port, each later one only when the one before
\* it passed; after the first failure no scenario is started, nothing more
\* is printed and the run ends with that failure; "all passed" is printed
\* only when the streaming scenario passed.
C13_FailFastInOrder ==
    /\ [](C13_InScenario(pc) => (err = "none" /\ Returned /\ port # None))
    /\ [](said = "all passed" => (err = "none" /\ pc \in C13_Ending))
    /\ [][/\ (C13_InScenario(pc') /\ pc' # pc) =>
                C13_Index(pc) = C13_Index(pc') - 1
          /\ (C13_InScenario(pc) /\ pc' # pc /\ ~C13_InScenario(pc')) =>
                /\ pc' = "finally"
                /\ (err' = "none") = (pc = "websocket_sequence"
                                        /\ said' = "all passed")
          /\ err # "none" =>
                (err' = err /\ said' = said /\ pc' \in C13_Ending)]_vars

\* the origin scenario failed after the capability scenario had passed,
\* and the run ended with that failure
C13_Witness ==
    /\ pc = "exit"
    /\ err = "AssertionError"
    /\ said = "ok capability"
    /\ terminated

(* C14 *)

\* C14: when the service answers the call of the origin scenario, the
\* scenario passes on status 403, passes with the warning on status 200
\* and fails on every other status, whatever the body of the answer.
C14_OriginByStatus ==
    [][(pc = "test_origin_block" /\ pc' # pc /\ err' # "OSError") =>
          /\ reply' = 403 =>
                /\ pc' = "test_torrent_errors"
                /\ err' = "none"
                /\ said' = "ok origin lock enforced"
          /\ reply' = 200 =>
                /\ pc' = "test_torrent_errors"
                /\ err' = "none"
                /\ said' = "warn origin lock bypassed"
          /\ reply' \notin {403, 200} =>
                /\ pc' = "finally"
                /\ err' = "AssertionError"
                /\ said' = said]_vars

\* the origin scenario has passed with the warning on an answer of
\* status 200
C14_Witness ==
    /\ pc = "test_torrent_errors"
    /\ reply = 200
    /\ said = "warn origin lock bypassed"
    /\ err = "none"

(* C15 *)

\* C15: in every poll whose scan of the log raised nothing and left no
\* non-zero port, the state file is read in that poll; and when the file
\* read records the supervised pid and a non-zero integer port, discovery
\* leaves the loop with that port in that poll.
C15_FileConsulted ==
    [][/\ (pc = "scan" /\ pc' # pc /\ err' = "none" /\ ~Truthy(port')) =>
              pc' = "file"
       /\ (pc = "file" /\ pc' # pc /\ ValidFile(file)) =>
              (pc' = "after" /\ port' = Some(file.port))]_vars

(* C16 *)

\* the line has a recognised phrasing and no port that int() can parse
C16_Unparsable(line) ==
    \/ line.rpc /\ RpcPort(line) = None
    \/ line.post /\ PostParses(line) /\ PostPort(line) = None

\* C16: the scan of a log that holds a line with a recognised phrasing
\* and an unparsable port raises nothing: the poll goes on to the state
\* file, to the sleep, or leaves the loop with a port.
C16_UnparsableIsTransient ==
    [][(/\ pc = "scan"
        /\ pc' # pc
        /\ \E i \in 1..Len(output_lines) : C16_Unparsable(output_lines[i])) =>
            (err' = err /\ pc' \in {"file", "sleep", "after"})]_vars

(* C17 *)

\* the frames of the model that carry type == "sync-patch" and a sequence
C17_PatchFrames ==
    { Encode(f.payload, f.key) : f \in { g \in PushedFrames : C12_IsPatch(g.payload) } }

\* such a frame has been received and waits in the buffer
C17_PatchReceived == \E f \in C17_PatchFrames : Contains(f, buffer)

\* C17: the scenario does not fail while a frame with type == "sync-patch"
\* and a sequence field, received before the deadline, waits to be decoded:
\* the frames before it are skipped, whatever they are.
C17_EarlierFramesSkipped ==
    ~(wsPc = "failed" /\ wsNow < WsDeadlineTicks /\ C17_PatchReceived)

(* C18 *)

\* C18: teardown sends terminate first and only then waits; kill is sent
\* only from the wait, to a process that has not exited; teardown changes
\* no error in flight; and when teardown has run the process is not running
\* at the exit of the harness.
C18_TeardownGraceful ==
    /\ [](killed => terminated)
    /\ []((pc = "exit" /\ terminated) => procState = "exited")
    /\ [][/\ (terminated' /\ ~terminated) => (pc = "finally" /\ pc' = "wait")
          /\ (killed' /\ ~killed) => (pc = "wait" /\ procState = "running")
          /\ (pc \in {"finally", "wait"}) => err' = err]_vars

\* the process had exited by the time teardown waited for it: the harness
\* ended without kill
C18_Witness ==
    /\ pc = "exit"
    /\ terminated
    /\ ~killed
    /\ procState = "exited"
    /\ err = "OSError"

(* C19 *)

\* the line is a well-formed announcement of a positive port
C19_AnnouncesPositive(line) ==
    \/ line.rpc /\ RpcPort(line) # None /\ RpcPort(line)[1] > 0
    \/ line.post /\ PostParses(line) /\ PostPort(line) # None
         /\ PostPort(line)[1] > 0

\* C19: no line is ever removed from the log, and the poll that scans a
\* log holding a well-formed announcement of a positive port, of a running
\* process, does not fail: it leaves the loop with a port or goes on
\* polling.
C19_AnnouncedPortFound ==
    [][/\ output_lines = Take(output_lines', Len(output_lines))
       /\ (/\ pc = "scan"
           /\ pc' # pc
           /\ procState = "running"
           /\ \E i \in 1..Len(output_lines) :
                 C19_AnnouncesPositive(output_lines[i])) =>
               (err' = err /\ pc' # "finally")]_vars

(* C20 *)

\* the runs of discovery on a process that stays running, with no state
\* file: the steps of start_backend, the reader thread and the clock
LogOnlyNext ==
    \/ StartBackend
    \/ LoopTest
    \/ PollProc
    \/ Scan
    \/ ReadFile
    \/ Sleep
    \/ AfterLoop
    \/ ReaderAppend
    \/ Tick

LogOnlyInit == Init /\ file = NoFile

LogOnlySpec == LogOnlyInit /\ [][LogOnlyNext]_vars

\* what a poll returns that finds the whole of the log at its first scan
C20_OneScan == ScanLog(output_lines, None, None)

\* C20: the port discovery returned is the port returned by the run in
\* which every line now in the log was appended before the first poll.
C20_SamePortAnyInterleaving ==
    (Returned /\ ~C20_OneScan.raised /\ Truthy(C20_OneScan.port)) =>
        port = C20_OneScan.port

====
